---- MODULE Spec2Model ----
(***************************************************************************)
(* Model of package osecure: the OAuthSession request-authorization layer. *)
(*                                                                         *)
(* One browser talks to one OAuthSession.  The state is the session        *)
(* artifact (the secure cookie) the browser holds, the wall clock, and a   *)
(* record of what the last handled request did.  Every handler is one      *)
(* action; the collaborators (token introspection, permission lookup,      *)
(* OAuth code exchange, cookie encoding) answer nondeterministically.      *)
(*                                                                         *)
(* Times are seconds on one axis whose origin is Go's zero time.Time, so   *)
(* time.Unix(expireAt, 0) is the shift onto that axis and the one int64    *)
(* that time.Unix maps to the zero Time is the value ZeroTime.             *)
(***************************************************************************)
EXTENDS Integers, Sequences, FiniteSets, TLC

\* ---------------------------------------------------------------- bounds
MaxTicks == 2       \* clock advances in one behaviour
MaxPerms == 2       \* length of a permission list a collaborator returns

\* ------------------------------------------------------ program constants
SessionExpireTime == 86400
PermissionExpireTime == 600

ZeroTime == 0
StartTime == 1000

ClientID == "client"
Audiences == {ClientID, "other"}
Subjects == {"alice"}

ErrNil == "nil"
ErrorInvalidSession == "invalid session"
ErrorInvalidAuthorizationHeaderFormat == "invalid authorization header format"
ErrorUnsupportedAuthorizationType == "unsupported authorization type"
ErrorInvalidAudience == "invalid audience (a.k.a. client ID)"
ErrorIntrospect == "introspection failed"
ErrorLookup == "permission lookup failed"
ErrorStore == "cookie store failed"
ErrorExchange == "code exchange failed"

\* ----------------------------------------------------------- strings
\* A header value and an access token are sequences of one-character strings.
SP == " "
Bearer == <<"B", "e", "a", "r", "e", "r">>
bearer == <<"b", "e", "a", "r", "e", "r">>
BEARER == <<"B", "E", "A", "R", "E", "R">>
Basic == <<"B", "a", "s", "i", "c">>
tokA == <<"a">>
tokB == <<"b">>

\* The Authorization header values a request may carry (<<>>: no header).
Headers ==
    { <<>>,
      Bearer \o <<SP>> \o tokA,
      Basic \o <<SP>> \o tokA }

\* More shapes of the header value, tried on GetSessionData.
HeaderShapes ==
    Headers \cup
    { Bearer,
      bearer \o <<SP>> \o tokB,
      BEARER \o <<SP>> \o tokA,
      Basic,
      Bearer \o <<SP>> \o tokA \o <<SP>> \o tokB,
      Bearer \o <<SP, SP>> \o tokA }

\* What a request's record holds for the header when the handler did not
\* read it.
NotRead == <<"?">>

\* unicode.ToLower on the letters that occur.
ToLower(c) ==
    CASE c = "B" -> "b" [] c = "E" -> "e" [] c = "A" -> "a" [] c = "R" -> "r"
      [] OTHER -> c

\* strings.EqualFold(s, t)
EqualFold(s, t) ==
    /\ Len(s) = Len(t)
    /\ \A i \in 1..Len(s) : ToLower(s[i]) = ToLower(t[i])

\* Index of the first occurrence of character c in s, 0 when there is none.
IndexOf(s, c) ==
    IF \E i \in 1..Len(s) : s[i] = c
    THEN CHOOSE i \in 1..Len(s) : s[i] = c /\ \A j \in 1..(i - 1) : s[j] # c
    ELSE 0

\* strings.SplitN(s, " ", 2): at most two pieces, cut at the first space.
SplitN2(s) ==
    LET i == IndexOf(s, SP)
    IN  IF i = 0 THEN <<s>>
        ELSE <<SubSeq(s, 1, i - 1), SubSeq(s, i + 1, Len(s))>>

\* getBearerToken: the bearer token of an Authorization header value.
getBearerToken(authorizationHeaderValue) ==
    LET authorizationData == SplitN2(authorizationHeaderValue)
    IN  IF Len(authorizationData) # 2
        THEN [token |-> <<>>, err |-> ErrorInvalidAuthorizationHeaderFormat]
        ELSE IF ~EqualFold(authorizationData[1], bearer)
        THEN [token |-> <<>>, err |-> ErrorUnsupportedAuthorizationType]
        ELSE [token |-> authorizationData[2], err |-> ErrNil]

\* ------------------------------------------------------- permissions
\* Permission strings, and Go's byte-wise string order on them.
Perms == {"read", "write"}
Rank(p) == CASE p = "read" -> 1 [] p = "write" -> 2
StrLess(a, b) == Rank(a) < Rank(b)

RECURSIVE SeqsUpTo(_, _)
SeqsUpTo(S, n) ==
    IF n = 0 THEN {<<>>}
    ELSE LET shorter == SeqsUpTo(S, n - 1)
         IN  shorter \cup {Append(s, x) : s \in {t \in shorter : Len(t) = n - 1}, x \in S}

\* The lists the permissions-lookup collaborator may return: any order,
\* duplicates allowed.
PermLists == SeqsUpTo(Perms, MaxPerms)

Elems(s) == {s[i] : i \in 1..Len(s)}

IsSorted(s) == \A i \in 1..(Len(s) - 1) : ~StrLess(s[i + 1], s[i])

\* Insert putting x first, whatever s holds.
InsertFirst(s, x) == <<x>> \o s

\* Insert x into the sorted sequence s, after the elements not greater than x.
RECURSIVE Insert(_, _)
Insert(s, x) ==
    IF s = <<>> THEN <<x>>
    ELSE IF StrLess(x, Head(s)) THEN <<x>> \o s
    ELSE <<Head(s)>> \o Insert(Tail(s), x)

\* sort.Strings: the ascending arrangement of the elements of s.
RECURSIVE SortStrings(_)
SortStrings(s) ==
    IF s = <<>> THEN <<>> ELSE Insert(SortStrings(SubSeq(s, 1, Len(s) - 1)), s[Len(s)])

\* sort.Search over a[0..n): indices here are Go's, a[h] is a[h + 1] in TLA+.
RECURSIVE Search(_, _, _, _)
Search(a, x, i, j) ==
    IF i < j
    THEN LET h == (i + j) \div 2
         IN  IF StrLess(a[h + 1], x) THEN Search(a, x, h + 1, j) ELSE Search(a, x, i, h)
    ELSE i

\* sort.SearchStrings(a, x)
SearchStrings(a, x) == Search(a, x, 0, Len(a))

\* The membership test of HasPermission on GetPermissions' list.
hasPermission(perms, permission) ==
    LET id == SearchStrings(perms, permission)
    IN  id < Len(perms) /\ perms[id + 1] = permission

\* ------------------------------------------------------- data model
Nil == [kind |-> "nil"]
Corrupt == [kind |-> "corrupt"]     \* a cookie the store cannot decode
NoExtra == "no extra"
Extras == {"claims"}

\* makeToken
makeToken(tokenType, accessToken, expireAt) ==
    [AccessToken |-> accessToken, TokenType |-> tokenType, Expiry |-> expireAt,
     Extra |-> NoExtra]

\* makeBearerToken
makeBearerToken(accessToken, expireAt) == makeToken("Bearer", accessToken, expireAt)

\* oauth2.Token.WithExtra
WithExtra(token, extra) == [token EXCEPT !.Extra = extra]

\* newAuthSessionCookieData without the default for a token that has no expiry.
newAuthSessionCookieDataNoDefault(token, t) ==
    [kind |-> "data", Token |-> token, Permissions |-> <<>>, PermissionsExpireAt |-> ZeroTime]

\* newAuthSessionCookieData, called at time t
newAuthSessionCookieData(token, t) ==
    [kind |-> "data",
     Token |-> IF token.Expiry = ZeroTime
               THEN [token EXCEPT !.Expiry = t + SessionExpireTime]
               ELSE token,
     Permissions |-> <<>>,
     PermissionsExpireAt |-> ZeroTime]

\* AuthSessionCookieData.isTokenExpired, evaluated at time t
isTokenExpired(cookieData, t) == cookieData.Token.Expiry < t

\* isPermissionsExpired with !After in place of Before.
isPermissionsExpiredNotAfter(cookieData, t) == cookieData.PermissionsExpireAt <= t

\* AuthSessionCookieData.isPermissionsExpired, evaluated at time t
isPermissionsExpired(cookieData, t) == cookieData.PermissionsExpireAt < t

\* What the cookie store's gob encoding keeps of a record: the token's
\* unexported extra claims are not encoded.
Encode(cookieData) == [cookieData EXCEPT !.Token.Extra = NoExtra]

\* ------------------------------------------------------------- state
VARIABLES
    now,        \* the wall clock, time.Now()
    ticks,      \* how many times the clock has advanced
    cookie,     \* the session artifact the browser holds: Nil, Corrupt or a record
    last,       \* the request being answered: what it was given and what it
                \* did; Blank while no request is being answered
    inflight    \* the requests handled concurrently, each with the locals of
                \* its handler (used by SpecConcurrent only)

vars == <<now, ticks, cookie, last, inflight>>

URIs == {"/a", "/b"}
Delays == {0, 1}

\* Answers of the collaborator IntrospectTokenFunc to a call made at time t.
IntrospectAnswers(t) ==
    {[err |-> TRUE]} \cup
    [err : {FALSE}, subject : Subjects, audience : Audiences,
     expireAt : {ZeroTime, t - 1, t, t + PermissionExpireTime + 1}, extra : Extras]

\* Answers of the collaborator GetPermissionsFunc.
LookupAnswers == {[err |-> TRUE]} \cup [err : {FALSE}, permissions : PermLists]

\* Answers of oauth2.Config.Exchange to a call made at time t.
ExchangeAnswers(t) ==
    {[err |-> TRUE]} \cup
    [err : {FALSE},
     token : [AccessToken : {tokB}, TokenType : {"Bearer"},
              Expiry : {ZeroTime, t - 1, t + 1}, Extra : {NoExtra}]]

\* --------------------------------------------------- cookie store
\* retrieveAuthCookie: the record of the request's cookie, Nil when there is
\* no cookie or the store cannot decode it.
retrieveAuthCookie(ck) == IF ck.kind = "data" THEN ck ELSE Nil

\* issueAuthCookie without the session.Save that sends the cookie.
issueAuthCookieUnsaved(ck, cookieData, saveOK) ==
    IF ck = Corrupt
    THEN [err |-> ErrorStore, cookie |-> ck]
    ELSE [err |-> ErrNil, cookie |-> ck]

\* issueAuthCookie: cookieStore.New fails on a cookie it cannot decode,
\* session.Save fails when saveOK is false; otherwise the browser's cookie
\* becomes the encoded record.
issueAuthCookie(ck, cookieData, saveOK) ==
    IF ck = Corrupt \/ ~saveOK
    THEN [err |-> ErrorStore, cookie |-> ck]
    ELSE [err |-> ErrNil, cookie |-> Encode(cookieData)]

\* expireAuthCookie without the session.Save that sends the deletion.
expireAuthCookieUnsaved(ck) == [panic |-> ck = Corrupt, cookie |-> ck]

\* expireAuthCookie: cookieStore.Get fails on a cookie it cannot decode and
\* the handler panics; otherwise "data" is deleted and the cookie is saved
\* with MaxAge -1, which makes the browser drop it.
expireAuthCookie(ck) ==
    IF ck = Corrupt
    THEN [panic |-> TRUE, cookie |-> ck]
    ELSE [panic |-> FALSE, cookie |-> Nil]

\* --------------------------------------------- credential reconciliation
\* The record every step below returns on failure.
Failed(c, e, n, a) ==
    [data |-> Nil, isTokenFromAuthorizationHeader |-> FALSE, err |-> e,
     headerRead |-> c.fromHeader, header |-> c.header, accessToken |-> c.accessToken,
     introspections |-> n, intro |-> a]

\* credentialOf trying the Authorization header before the cookie.
credentialOfHeaderFirst(ck, hdr, t1) ==
    IF getBearerToken(hdr).err = ErrNil
       \/ retrieveAuthCookie(ck) = Nil \/ isTokenExpired(retrieveAuthCookie(ck), t1)
    THEN [fromHeader |-> TRUE, header |-> hdr, cookieData |-> Nil,
          accessToken |-> getBearerToken(hdr).token, err |-> getBearerToken(hdr).err]
    ELSE [fromHeader |-> FALSE, header |-> NotRead, cookieData |-> retrieveAuthCookie(ck),
          accessToken |-> retrieveAuthCookie(ck).Token.AccessToken, err |-> ErrNil]

\* getAuthSessionDataFromRequest, first half: the access token of the
\* request's cookie when it holds a record whose token has not expired at
\* time t1, otherwise the bearer token of its Authorization header.
credentialOf(ck, hdr, t1) ==
    IF retrieveAuthCookie(ck) = Nil \/ isTokenExpired(retrieveAuthCookie(ck), t1)
    THEN [fromHeader |-> TRUE, header |-> hdr, cookieData |-> Nil,
          accessToken |-> getBearerToken(hdr).token, err |-> getBearerToken(hdr).err]
    ELSE [fromHeader |-> FALSE, header |-> NotRead, cookieData |-> retrieveAuthCookie(ck),
          accessToken |-> retrieveAuthCookie(ck).Token.AccessToken, err |-> ErrNil]

\* identityOf without the comparison of the audience with the client ID.
identityOfAnyAudience(c, ans, t2) ==
    IF c.err # ErrNil THEN Failed(c, c.err, 0, Nil)
    ELSE IF ans.err THEN Failed(c, ErrorIntrospect, 1, ans)
    ELSE [data |-> [kind |-> "identity", Subject |-> ans.subject, Audience |-> ans.audience,
                    AuthSessionCookieData |->
                        IF c.fromHeader
                        THEN newAuthSessionCookieData(
                                 WithExtra(makeBearerToken(c.accessToken, ans.expireAt),
                                           ans.extra), t2)
                        ELSE c.cookieData],
          isTokenFromAuthorizationHeader |-> c.fromHeader, err |-> ErrNil,
          headerRead |-> c.fromHeader, header |-> c.header, accessToken |-> c.accessToken,
          introspections |-> 1, intro |-> ans]

\* identityOf building the record from the introspection's answer for a
\* credential from the cookie too.
identityOfIntrospectedExpiry(c, ans, t2) ==
    IF c.err # ErrNil THEN Failed(c, c.err, 0, Nil)
    ELSE IF ans.err THEN Failed(c, ErrorIntrospect, 1, ans)
    ELSE IF ans.audience # ClientID THEN Failed(c, ErrorInvalidAudience, 1, ans)
    ELSE [data |-> [kind |-> "identity", Subject |-> ans.subject, Audience |-> ans.audience,
                    AuthSessionCookieData |->
                        newAuthSessionCookieData(
                            WithExtra(makeBearerToken(c.accessToken, ans.expireAt),
                                      ans.extra), t2)],
          isTokenFromAuthorizationHeader |-> c.fromHeader, err |-> ErrNil,
          headerRead |-> c.fromHeader, header |-> c.header, accessToken |-> c.accessToken,
          introspections |-> 1, intro |-> ans]

\* getAuthSessionDataFromRequest, second half: introspect credential c's
\* access token (the collaborator answers ans, and it is time t2 when it has
\* answered), build the identity, compare its audience.  Besides the three
\* results of the Go function the record says what the call did.
identityOf(c, ans, t2) ==
    IF c.err # ErrNil THEN Failed(c, c.err, 0, Nil)
    ELSE IF ans.err THEN Failed(c, ErrorIntrospect, 1, ans)
    ELSE IF ans.audience # ClientID THEN Failed(c, ErrorInvalidAudience, 1, ans)
    ELSE [data |-> [kind |-> "identity", Subject |-> ans.subject, Audience |-> ans.audience,
                    AuthSessionCookieData |->
                        IF c.fromHeader
                        THEN newAuthSessionCookieData(
                                 WithExtra(makeBearerToken(c.accessToken, ans.expireAt),
                                           ans.extra), t2)
                        ELSE c.cookieData],
          isTokenFromAuthorizationHeader |-> c.fromHeader, err |-> ErrNil,
          headerRead |-> c.fromHeader, header |-> c.header, accessToken |-> c.accessToken,
          introspections |-> 1, intro |-> ans]

\* getAuthSessionDataFromRequest
getAuthSessionDataFromRequest(ck, hdr, ans, t1, t2) == identityOf(credentialOf(ck, hdr, t1), ans, t2)

\* data == nil || data.isTokenExpired(), evaluated at time t
nilOrExpired(data, t) == data = Nil \/ isTokenExpired(data.AuthSessionCookieData, t)

\* A path without issueAuthCookie that drops the request's cookie.
NoWriteDeleting(ck) == [cookie |-> Nil, write |-> Nil, writeErr |-> ErrNil]

\* The paths of a handler that do not call issueAuthCookie: the cookie stays.
NoWrite(ck) == [cookie |-> ck, write |-> Nil, writeErr |-> ErrNil]

\* isAuthorized without the test of the token's expiry.
isAuthorizedUnexpiring(ck, g, saveOK, t2) ==
    IF g.err # ErrNil THEN [result |-> FALSE] @@ NoWrite(ck)
    ELSE IF g.isTokenFromAuthorizationHeader
    THEN LET w == issueAuthCookie(ck, g.data.AuthSessionCookieData, saveOK)
         IN  [result |-> IF w.err # ErrNil THEN FALSE ELSE TRUE, cookie |-> w.cookie,
              write |-> g.data.AuthSessionCookieData, writeErr |-> w.err]
    ELSE [result |-> TRUE] @@ NoWrite(ck)

\* isAuthorized, given the result g of its call of
\* getAuthSessionDataFromRequest; t2 is the time of its expiry test.
isAuthorized(ck, g, saveOK, t2) ==
    IF g.err # ErrNil THEN [result |-> FALSE] @@ NoWrite(ck)
    ELSE IF nilOrExpired(g.data, t2) THEN [result |-> FALSE] @@ NoWrite(ck)
    ELSE IF g.isTokenFromAuthorizationHeader
    THEN LET w == issueAuthCookie(ck, g.data.AuthSessionCookieData, saveOK)
         IN  [result |-> IF w.err # ErrNil THEN FALSE ELSE TRUE, cookie |-> w.cookie,
              write |-> g.data.AuthSessionCookieData, writeErr |-> w.err]
    ELSE [result |-> TRUE] @@ NoWrite(ck)

\* ensurePermUpdated without the sort.Strings of the fetched list.
ensurePermUpdatedUnsorted(data, lk, t2, t3) ==
    IF ~isPermissionsExpired(data.AuthSessionCookieData, t2)
    THEN [updated |-> FALSE, err |-> ErrNil, data |-> data, lookups |-> 0, lookup |-> Nil]
    ELSE IF lk.err
    THEN [updated |-> FALSE, err |-> ErrorLookup, data |-> data, lookups |-> 1, lookup |-> lk]
    ELSE [updated |-> TRUE, err |-> ErrNil,
          data |-> [data EXCEPT
                      !.AuthSessionCookieData.Permissions = lk.permissions,
                      !.AuthSessionCookieData.PermissionsExpireAt = t3 + PermissionExpireTime],
          lookups |-> 1, lookup |-> lk]

\* ensurePermUpdated.  t2 is the time of the cache's expiry test; the
\* collaborator answers lk, and it is time t3 when it has answered.
ensurePermUpdated(data, lk, t2, t3) ==
    IF ~isPermissionsExpired(data.AuthSessionCookieData, t2)
    THEN [updated |-> FALSE, err |-> ErrNil, data |-> data, lookups |-> 0, lookup |-> Nil]
    ELSE IF lk.err
    THEN [updated |-> FALSE, err |-> ErrorLookup, data |-> data, lookups |-> 1, lookup |-> lk]
    ELSE [updated |-> TRUE, err |-> ErrNil,
          data |-> [data EXCEPT
                      !.AuthSessionCookieData.Permissions = SortStrings(lk.permissions),
                      !.AuthSessionCookieData.PermissionsExpireAt = t3 + PermissionExpireTime],
          lookups |-> 1, lookup |-> lk]

\* permissionsAfter returning the list although issueAuthCookie failed.
permissionsAfterUnchecked(ck, g, u, saveOK) ==
    IF g.isTokenFromAuthorizationHeader \/ u.updated
    THEN LET w == issueAuthCookie(ck, u.data.AuthSessionCookieData, saveOK)
         IN  [err |-> ErrNil, perms |-> u.data.AuthSessionCookieData.Permissions,
              cookie |-> w.cookie, write |-> u.data.AuthSessionCookieData, writeErr |-> w.err,
              lookups |-> u.lookups, lookup |-> u.lookup, updated |-> u.updated]
    ELSE [err |-> ErrNil, perms |-> u.data.AuthSessionCookieData.Permissions,
          lookups |-> u.lookups, lookup |-> u.lookup, updated |-> u.updated] @@ NoWrite(ck)

\* permissionsAfter writing the cookie for a header's token only.
permissionsAfterHeaderOnly(ck, g, u, saveOK) ==
    IF g.isTokenFromAuthorizationHeader
    THEN LET w == issueAuthCookie(ck, u.data.AuthSessionCookieData, saveOK)
         IN  [err |-> w.err,
              perms |-> IF w.err # ErrNil THEN <<>> ELSE u.data.AuthSessionCookieData.Permissions,
              cookie |-> w.cookie, write |-> u.data.AuthSessionCookieData, writeErr |-> w.err,
              lookups |-> u.lookups, lookup |-> u.lookup, updated |-> u.updated]
    ELSE [err |-> ErrNil, perms |-> u.data.AuthSessionCookieData.Permissions,
          lookups |-> u.lookups, lookup |-> u.lookup, updated |-> u.updated] @@ NoWrite(ck)

\* GetPermissions, lines 195-202: after ensurePermUpdated returned u without
\* an error.
permissionsAfter(ck, g, u, saveOK) ==
    IF g.isTokenFromAuthorizationHeader \/ u.updated
    THEN LET w == issueAuthCookie(ck, u.data.AuthSessionCookieData, saveOK)
         IN  [err |-> w.err,
              perms |-> IF w.err # ErrNil THEN <<>> ELSE u.data.AuthSessionCookieData.Permissions,
              cookie |-> w.cookie, write |-> u.data.AuthSessionCookieData, writeErr |-> w.err,
              lookups |-> u.lookups, lookup |-> u.lookup, updated |-> u.updated]
    ELSE [err |-> ErrNil, perms |-> u.data.AuthSessionCookieData.Permissions,
          lookups |-> u.lookups, lookup |-> u.lookup, updated |-> u.updated] @@ NoWrite(ck)

\* GetPermissions without the test of the token's expiry.
GetPermissionsUnexpiring(ck, g, lk, saveOK, t2, t3) ==
    IF g.err # ErrNil
    THEN [err |-> g.err, perms |-> <<>>, lookups |-> 0, lookup |-> Nil, updated |-> FALSE]
           @@ NoWrite(ck)
    ELSE LET u == ensurePermUpdated(g.data, lk, t2, t3)
         IN  IF u.err # ErrNil
             THEN [err |-> u.err, perms |-> <<>>, lookups |-> u.lookups, lookup |-> u.lookup,
                   updated |-> FALSE] @@ NoWrite(ck)
             ELSE permissionsAfter(ck, g, u, saveOK)

\* GetPermissions, given the result g of its call of
\* getAuthSessionDataFromRequest.
GetPermissions(ck, g, lk, saveOK, t2, t3) ==
    IF g.err # ErrNil
    THEN [err |-> g.err, perms |-> <<>>, lookups |-> 0, lookup |-> Nil, updated |-> FALSE]
           @@ NoWrite(ck)
    ELSE IF nilOrExpired(g.data, t2)
    THEN [err |-> ErrorInvalidSession, perms |-> <<>>, lookups |-> 0, lookup |-> Nil,
          updated |-> FALSE] @@ NoWrite(ck)
    ELSE LET u == ensurePermUpdated(g.data, lk, t2, t3)
         IN  IF u.err # ErrNil
             THEN [err |-> u.err, perms |-> <<>>, lookups |-> u.lookups, lookup |-> u.lookup,
                   updated |-> FALSE] @@ NoWrite(ck)
             ELSE permissionsAfter(ck, g, u, saveOK)

\* HasPermission, given the result p of its call of GetPermissions.
HasPermission(p, permission) ==
    IF p.err # ErrNil THEN FALSE ELSE hasPermission(p.perms, permission)

\* GetSessionData, given the result g of its call of
\* getAuthSessionDataFromRequest.
GetSessionData(g, t2) ==
    IF g.err # ErrNil THEN [data |-> Nil, err |-> g.err]
    ELSE IF nilOrExpired(g.data, t2) THEN [data |-> Nil, err |-> ErrorInvalidSession]
    ELSE [data |-> g.data, err |-> ErrNil]

\* startOAuth: the 303 redirect to client.AuthCodeURL(r.RequestURI).
startOAuth(uri) == [status |-> 303, location |-> [to |-> "AuthURL", state |-> uri]]

\* ------------------------------------------------------------ actions
\* The record of a request: what it was given (op, uri, cookieIn, permission,
\* the header it read, the clock readings t1 and t2, the collaborators'
\* answers to the calls it made) and what it did.
Blank ==
    [op |-> "none", header |-> NotRead, uri |-> "", cookieIn |-> Nil, permission |-> "",
     t1 |-> ZeroTime, t2 |-> ZeroTime,
     headerRead |-> FALSE, fromHeader |-> FALSE, accessToken |-> <<>>,
     introspections |-> 0, intro |-> Nil, lookups |-> 0, lookup |-> Nil,
     updated |-> FALSE, write |-> Nil, writeErr |-> ErrNil,
     err |-> ErrNil, data |-> Nil, perms |-> <<>>, result |-> FALSE,
     status |-> 0, location |-> Nil, nextCalled |-> FALSE, panicked |-> FALSE,
     exchange |-> Nil]

\* What getAuthSessionDataFromRequest did, as fields of the request's record.
Extraction(g) ==
    [headerRead |-> g.headerRead, header |-> g.header,
     fromHeader |-> g.isTokenFromAuthorizationHeader,
     accessToken |-> g.accessToken, introspections |-> g.introspections, intro |-> g.intro]

\* A collaborator is asked only when the handler calls it, and only a call
\* takes time.
NoAnswer == [err |-> TRUE]
IntrospectAnswersIf(called) == IF called THEN IntrospectAnswers(now) ELSE {NoAnswer}
LookupAnswersIf(called) == IF called THEN LookupAnswers ELSE {NoAnswer}
DelaysIf(called, t) ==
    IF called THEN {d \in Delays : ticks + (t - now) + d <= MaxTicks} ELSE {0}
SaveIf(called) == IF called THEN BOOLEAN ELSE {TRUE}

Idle == last.op = "none"

Finish(r, ck, t) ==
    /\ last' = r @@ Blank
    /\ cookie' = ck
    /\ ticks' = ticks + (t - now)
    /\ now' = t
    /\ UNCHANGED inflight

\* The request starts at time now; its introspection call, when it makes
\* one, is answered ans at time t2.
Introspected(hdr, handle(_, _)) ==
    \E ans \in IntrospectAnswersIf(credentialOf(cookie, hdr, now).err = ErrNil) :
      \E dI \in DelaysIf(credentialOf(cookie, hdr, now).err = ErrNil, now) :
        handle(getAuthSessionDataFromRequest(cookie, hdr, ans, now, now + dI), now + dI)

SecuredDone(uri, g, a, t2) ==
    Finish([op |-> "Secured", uri |-> uri, cookieIn |-> cookie, t1 |-> now, t2 |-> t2,
            write |-> a.write, writeErr |-> a.writeErr, result |-> a.result,
            status |-> IF a.result THEN 200 ELSE startOAuth(uri).status,
            location |-> IF a.result THEN Nil ELSE startOAuth(uri).location,
            nextCalled |-> a.result] @@ Extraction(g),
           a.cookie, t2)

\* A request to a handler wrapped by Secured: isAuthorized, then startOAuth
\* or the wrapped handler (which answers 200).
Secured ==
    /\ Idle
    /\ \E hdr \in Headers, uri \in URIs :
         LET handle(g, t2) ==
               \E saveOK \in SaveIf(isAuthorized(cookie, g, TRUE, t2).write # Nil) :
                 SecuredDone(uri, g, isAuthorized(cookie, g, saveOK, t2), t2)
         IN  Introspected(hdr, handle)

PermissionDone(op, permission, g, p, t2, t3) ==
    Finish([op |-> op, cookieIn |-> cookie, permission |-> permission,
            t1 |-> now, t2 |-> t2,
            lookups |-> p.lookups, lookup |-> p.lookup, updated |-> p.updated,
            write |-> p.write, writeErr |-> p.writeErr, err |-> p.err, perms |-> p.perms,
            result |-> IF op = "HasPermission" THEN HasPermission(p, permission) ELSE FALSE]
             @@ Extraction(g),
           p.cookie, t3)

\* A call of GetPermissions (permission = "") or of HasPermission.
PermissionRequest(op, permissions) ==
    /\ Idle
    /\ \E hdr \in Headers, permission \in permissions :
         LET handle(g, t2) ==
               \E lk \in LookupAnswersIf(
                           GetPermissions(cookie, g, NoAnswer, TRUE, t2, t2).lookups = 1) :
                 \E dP \in DelaysIf(lk # NoAnswer, t2) :
                   \E saveOK \in SaveIf(
                                   GetPermissions(cookie, g, lk, TRUE, t2, t2 + dP).write # Nil) :
                     PermissionDone(op, permission, g,
                                    GetPermissions(cookie, g, lk, saveOK, t2, t2 + dP),
                                    t2, t2 + dP)
         IN  Introspected(hdr, handle)

GetPermissionsRequest == PermissionRequest("GetPermissions", {""})

HasPermissionRequest == PermissionRequest("HasPermission", Perms)

SessionDataDone(g, d, t2) ==
    Finish([op |-> "GetSessionData", cookieIn |-> cookie, t1 |-> now, t2 |-> t2,
            err |-> d.err, data |-> d.data] @@ Extraction(g),
           cookie, t2)

\* A call of GetSessionData.
GetSessionDataRequest ==
    /\ Idle
    /\ \E hdr \in HeaderShapes :
         LET handle(g, t2) == SessionDataDone(g, GetSessionData(g, t2), t2)
         IN  Introspected(hdr, handle)

\* ExpireSession(redirect): expireAuthCookie, then the 303 redirect.
ExpireSession ==
    /\ Idle
    /\ \E redirect \in URIs :
         Finish([op |-> "ExpireSession", cookieIn |-> cookie, t1 |-> now, t2 |-> now,
                 panicked |-> expireAuthCookie(cookie).panic,
                 status |-> IF expireAuthCookie(cookie).panic THEN 0 ELSE 303,
                 location |-> IF expireAuthCookie(cookie).panic THEN Nil
                              ELSE [to |-> redirect, state |-> ""]],
                expireAuthCookie(cookie).cookie, now)

\* CallbackView answering the redirect although issueAuthCookie failed.
CallbackDoneUnchecked(state, ex, cd, w) ==
    IF ex.err
    THEN Finish([op |-> "CallbackView", uri |-> state, cookieIn |-> cookie, exchange |-> ex,
                 t1 |-> now, t2 |-> now, status |-> 400, err |-> ErrorExchange],
                cookie, now)
    ELSE Finish([op |-> "CallbackView", uri |-> state, cookieIn |-> cookie, exchange |-> ex,
                 t1 |-> now, t2 |-> now, write |-> cd, writeErr |-> w.err, err |-> w.err,
                 status |-> 303, location |-> [to |-> state, state |-> ""]],
                w.cookie, now)

\* CallbackView, given the answer ex of client.Exchange, the fresh record cd
\* and the result w of issueAuthCookie.
CallbackDone(state, ex, cd, w) ==
    IF ex.err
    THEN Finish([op |-> "CallbackView", uri |-> state, cookieIn |-> cookie, exchange |-> ex,
                 t1 |-> now, t2 |-> now, status |-> 400, err |-> ErrorExchange],
                cookie, now)
    ELSE Finish([op |-> "CallbackView", uri |-> state, cookieIn |-> cookie, exchange |-> ex,
                 t1 |-> now, t2 |-> now, write |-> cd, writeErr |-> w.err, err |-> w.err,
                 status |-> IF w.err # ErrNil THEN 500 ELSE 303,
                 location |-> IF w.err # ErrNil THEN Nil ELSE [to |-> state, state |-> ""]],
                w.cookie, now)

\* CallbackView: exchange the code, persist a fresh record, redirect to state.
CallbackView ==
    /\ Idle
    /\ \E state \in URIs, ex \in ExchangeAnswers(now) :
         \E saveOK \in SaveIf(~ex.err) :
           CallbackDone(state, ex, newAuthSessionCookieData(ex.token, now),
                        issueAuthCookie(cookie, newAuthSessionCookieData(ex.token, now), saveOK))

\* The response is delivered and the handler returns.
Respond ==
    /\ ~Idle
    /\ last' = Blank
    /\ UNCHANGED <<now, ticks, cookie, inflight>>

\* Time passes between requests.
Tick ==
    /\ Idle
    /\ ticks < MaxTicks
    /\ \E d \in {1, PermissionExpireTime} :
         /\ now' = now + d
         /\ ticks' = ticks + 1
    /\ UNCHANGED <<cookie, last, inflight>>

\* The browser's cookie is damaged, so that the store cannot decode it.
Tamper ==
    /\ Idle
    /\ cookie.kind = "data"
    /\ cookie' = Corrupt
    /\ UNCHANGED <<now, ticks, last, inflight>>

\* The requests that may be in flight at once, and the slot of none.
Reqs == {1, 2}
NoRequest == [pc |-> "idle"]

Init ==
    /\ now = StartTime
    /\ ticks = 0
    /\ cookie = Nil
    /\ last = Blank
    /\ inflight = [i \in Reqs |-> NoRequest]

Next ==
    \/ Secured
    \/ GetPermissionsRequest
    \/ HasPermissionRequest
    \/ GetSessionDataRequest
    \/ ExpireSession
    \/ CallbackView
    \/ Respond
    \/ Tick
    \/ Tamper

Spec == Init /\ [][Next]_vars

\* ------------------------------------------------ concurrent requests
\* The same handlers, each run as the steps between its blocking calls, for
\* the requests of Reqs at once.  A request carries the cookie the browser
\* held when it was sent; its handler's locals are the fields of its slot;
\* a Set-Cookie of its response replaces the browser's cookie.
ConcurrentOps == {"Secured", "GetPermissions", "GetSessionData", "CallbackView", "ExpireSession"}
IdentityOps == {"Secured", "GetPermissions", "GetSessionData"}

\* Artifacts the browser may hold at time StartTime: none, the record of a
\* callback, and a record whose permission cache has been filled.
InitialArtifacts ==
    { Nil,
      Encode(newAuthSessionCookieData(makeBearerToken(tokB, ZeroTime), StartTime)),
      [Encode(newAuthSessionCookieData(
                  makeBearerToken(tokA, StartTime + PermissionExpireTime + 1), StartTime))
         EXCEPT !.Permissions = <<"read">>,
                !.PermissionsExpireAt = StartTime + PermissionExpireTime] }

\* The inputs tried while requests overlap: fewer than one request alone is
\* given, every outcome of each call among them.
ConcurrentHeaders == {<<>>, Bearer \o <<SP>> \o tokA}
ConcurrentIntrospectAnswers(t) ==
    {a \in IntrospectAnswers(t) :
        \/ a.err
        \/ a.expireAt = ZeroTime}
ConcurrentLookupAnswers ==
    {[err |-> TRUE],
     [err |-> FALSE, permissions |-> <<"read">>],
     [err |-> FALSE, permissions |-> <<"write", "read">>]}
ConcurrentExchangeAnswers(t) ==
    {ex \in ExchangeAnswers(t) : ex.err \/ ex.token.Expiry = ZeroTime}

\* The slot of a request just sent.
Sent(op, hdr, ck) ==
    [pc |-> "sent", op |-> op, header |-> hdr, cookieIn |-> ck,
     t1 |-> ZeroTime, t2 |-> ZeroTime, t3 |-> ZeroTime,
     c |-> Nil, g |-> Nil, intro |-> NoAnswer, lookup |-> NoAnswer, exchange |-> NoAnswer,
     saveOK |-> TRUE, out |-> Nil]

\* What a finished handler returned and wrote.
Out(result, err, perms, data, status, write, writeErr) ==
    [result |-> result, err |-> err, perms |-> perms, data |-> data, status |-> status,
     write |-> write, writeErr |-> writeErr]

\* The browser's cookie after a response: the Set-Cookie of a successful
\* issueAuthCookie, otherwise what it was.
Stored(w) == IF w.err = ErrNil THEN w.cookie ELSE cookie

\* The identity a handler works on with the store holding shared, were the
\* decoded record kept in memory shared by all requests.
sharedData(r, shared) ==
    IF shared.kind = "data"
    THEN [r.g.data EXCEPT !.AuthSessionCookieData = shared]
    ELSE r.g.data

\* The identity a handler works on: the one it built from its own request,
\* whatever the store holds by now.
ownData(r, shared) == r.g.data

Step(i, r, ck) ==
    /\ inflight' = [inflight EXCEPT ![i] = r]
    /\ cookie' = ck
    /\ UNCHANGED <<now, ticks, last>>

\* The browser sends a request with the cookie it holds.  The requests are
\* numbered in the order they are sent.
Send(i) ==
    /\ inflight[i].pc = "idle"
    /\ \A j \in Reqs : j < i => inflight[j].pc # "idle"
    /\ \E op \in ConcurrentOps :
         \E hdr \in (IF op \in IdentityOps THEN ConcurrentHeaders ELSE {<<>>}) :
           Step(i, Sent(op, hdr, cookie), cookie)

\* ExpireSession
Expire(i) ==
    /\ inflight[i].pc = "sent"
    /\ inflight[i].op = "ExpireSession"
    /\ LET e == expireAuthCookie(inflight[i].cookieIn)
       IN  Step(i, [pc |-> "done", t1 |-> now,
                    out |-> Out(~e.panic, ErrNil, <<>>, Nil, IF e.panic THEN 0 ELSE 303,
                                Nil, ErrNil)] @@ inflight[i],
                IF e.panic THEN cookie ELSE e.cookie)

\* CallbackView up to its call of client.Exchange.
StartExchange(i) ==
    /\ inflight[i].pc = "sent"
    /\ inflight[i].op = "CallbackView"
    /\ Step(i, [pc |-> "exchanging", t1 |-> now] @@ inflight[i], cookie)

\* CallbackView from the answer of client.Exchange on.
Exchanged(i) ==
    /\ inflight[i].pc = "exchanging"
    /\ \E ex \in ConcurrentExchangeAnswers(now) :
         IF ex.err
         THEN Step(i, [pc |-> "done", t2 |-> now, exchange |-> ex,
                       out |-> Out(FALSE, ErrorExchange, <<>>, Nil, 400, Nil, ErrNil)]
                        @@ inflight[i],
                   cookie)
         ELSE \E saveOK \in BOOLEAN :
                LET cd == newAuthSessionCookieData(ex.token, now)
                    w == issueAuthCookie(inflight[i].cookieIn, cd, saveOK)
                IN  Step(i, [pc |-> "done", t2 |-> now, exchange |-> ex, saveOK |-> saveOK,
                             out |-> Out(w.err = ErrNil, w.err, <<>>, Nil,
                                         IF w.err # ErrNil THEN 500 ELSE 303, cd, w.err)]
                              @@ inflight[i],
                         Stored(w))

\* getAuthSessionDataFromRequest up to its call of IntrospectTokenFunc.
Extract(i) ==
    /\ inflight[i].pc = "sent"
    /\ inflight[i].op \in IdentityOps
    /\ LET c == credentialOf(inflight[i].cookieIn, inflight[i].header, now)
       IN  IF c.err # ErrNil
           THEN Step(i, [pc |-> "done", t1 |-> now, t2 |-> now, c |-> c,
                         out |-> Out(FALSE,
                                     IF inflight[i].op = "Secured" THEN ErrNil ELSE c.err,
                                     <<>>, Nil,
                                     IF inflight[i].op = "Secured" THEN 303 ELSE 0,
                                     Nil, ErrNil)] @@ inflight[i],
                     cookie)
           ELSE Step(i, [pc |-> "introspecting", t1 |-> now, c |-> c] @@ inflight[i], cookie)

\* The handler of slot r after IntrospectTokenFunc answered ans failed: an
\* error of getAuthSessionDataFromRequest, or an expired token.
Rejected(r, g) ==
    [pc |-> "done", t2 |-> now, g |-> g, intro |-> g.intro,
     out |-> Out(FALSE,
                 IF r.op = "Secured" THEN ErrNil
                 ELSE IF g.err # ErrNil THEN g.err ELSE ErrorInvalidSession,
                 <<>>, Nil, IF r.op = "Secured" THEN 303 ELSE 0, Nil, ErrNil)] @@ r

\* isAuthorized from the answer of IntrospectTokenFunc on.
AuthorizeAnswered(i) ==
    /\ inflight[i].pc = "introspecting"
    /\ inflight[i].op = "Secured"
    /\ \E ans \in ConcurrentIntrospectAnswers(now) :
         LET r == inflight[i]
             g == identityOf(r.c, ans, now)
         IN  IF g.err # ErrNil \/ nilOrExpired(g.data, now)
             THEN Step(i, Rejected(r, g), cookie)
             ELSE IF g.isTokenFromAuthorizationHeader
             THEN \E saveOK \in BOOLEAN :
                    LET w == issueAuthCookie(r.cookieIn, g.data.AuthSessionCookieData, saveOK)
                    IN  Step(i, [pc |-> "done", t2 |-> now, g |-> g, intro |-> ans,
                                 saveOK |-> saveOK,
                                 out |-> Out(w.err = ErrNil, ErrNil, <<>>, Nil,
                                             IF w.err = ErrNil THEN 200 ELSE 303,
                                             g.data.AuthSessionCookieData, w.err)] @@ r,
                             Stored(w))
             ELSE Step(i, [pc |-> "done", t2 |-> now, g |-> g, intro |-> ans,
                           out |-> Out(TRUE, ErrNil, <<>>, Nil, 200, Nil, ErrNil)] @@ r,
                       cookie)

\* GetSessionData from the answer of IntrospectTokenFunc on.
SessionDataAnswered(i) ==
    /\ inflight[i].pc = "introspecting"
    /\ inflight[i].op = "GetSessionData"
    /\ \E ans \in ConcurrentIntrospectAnswers(now) :
         LET r == inflight[i]
             g == identityOf(r.c, ans, now)
         IN  IF g.err # ErrNil \/ nilOrExpired(g.data, now)
             THEN Step(i, Rejected(r, g), cookie)
             ELSE Step(i, [pc |-> "done", t2 |-> now, g |-> g, intro |-> ans,
                           out |-> Out(FALSE, ErrNil, <<>>, g.data, 0, Nil, ErrNil)] @@ r,
                       cookie)

\* GetPermissions from the answer of IntrospectTokenFunc to its return, or
\* to ensurePermUpdated's call of GetPermissionsFunc.
PermissionsAnswered(i) ==
    /\ inflight[i].pc = "introspecting"
    /\ inflight[i].op = "GetPermissions"
    /\ \E ans \in ConcurrentIntrospectAnswers(now) :
         LET r == inflight[i]
             g == identityOf(r.c, ans, now)
         IN  IF g.err # ErrNil \/ nilOrExpired(g.data, now)
             THEN Step(i, Rejected(r, g), cookie)
             ELSE IF isPermissionsExpired(g.data.AuthSessionCookieData, now)
             THEN Step(i, [pc |-> "lookingUp", t2 |-> now, g |-> g, intro |-> ans] @@ r, cookie)
             ELSE Step(i, [pc |-> "done", t2 |-> now, t3 |-> now, g |-> g, intro |-> ans,
                           out |-> Out(FALSE, ErrNil, g.data.AuthSessionCookieData.Permissions,
                                       Nil, 0, Nil, ErrNil)] @@ r,
                       cookie)

\* GetPermissions from the answer of GetPermissionsFunc on.
LookupAnswered(i) ==
    /\ inflight[i].pc = "lookingUp"
    /\ \E lk \in ConcurrentLookupAnswers :
         LET r == inflight[i]
             u == ensurePermUpdated(ownData(r, cookie), lk, r.t2, now)
         IN  IF u.err # ErrNil
             THEN Step(i, [pc |-> "done", t3 |-> now, lookup |-> lk,
                           out |-> Out(FALSE, u.err, <<>>, Nil, 0, Nil, ErrNil)] @@ r,
                       cookie)
             ELSE \E saveOK \in BOOLEAN :
                    LET w == issueAuthCookie(r.cookieIn, u.data.AuthSessionCookieData, saveOK)
                    IN  Step(i, [pc |-> "done", t3 |-> now, lookup |-> lk, saveOK |-> saveOK,
                                 out |-> Out(FALSE, w.err,
                                             IF w.err # ErrNil THEN <<>>
                                             ELSE u.data.AuthSessionCookieData.Permissions,
                                             Nil, 0, u.data.AuthSessionCookieData, w.err)] @@ r,
                             Stored(w))

\* Time passes while requests are in flight.
Elapse ==
    /\ ticks < MaxTicks
    /\ now' = now + PermissionExpireTime + 1
    /\ ticks' = ticks + 1
    /\ UNCHANGED <<cookie, last, inflight>>

InitConcurrent ==
    /\ now = StartTime
    /\ ticks = 0
    /\ cookie \in InitialArtifacts
    /\ last = Blank
    /\ inflight = [i \in Reqs |-> NoRequest]

NextConcurrent ==
    \/ \E i \in Reqs : Send(i)
    \/ \E i \in Reqs : Expire(i)
    \/ \E i \in Reqs : StartExchange(i)
    \/ \E i \in Reqs : Exchanged(i)
    \/ \E i \in Reqs : Extract(i)
    \/ \E i \in Reqs : AuthorizeAnswered(i)
    \/ \E i \in Reqs : SessionDataAnswered(i)
    \/ \E i \in Reqs : PermissionsAnswered(i)
    \/ \E i \in Reqs : LookupAnswered(i)
    \/ Elapse

SpecConcurrent == InitConcurrent /\ [][NextConcurrent]_vars

\* ================================================================ claims
AuthOps == {"Secured", "GetPermissions", "HasPermission", "GetSessionData"}
PermissionOps == {"GetPermissions", "HasPermission"}

\* The request being answered took its credential from somewhere.
CredentialExtracted ==
    IF last.headerRead
    THEN getBearerToken(last.header).err = ErrNil
    ELSE last.cookieIn.kind = "data" /\ last.cookieIn.Token.Expiry >= last.t1

\* Its introspection call was made and answered without an error.
IntrospectionOK == last.introspections = 1 /\ ~last.intro.err

\* The expiry of the token of the request's identity: the stored one for a
\* credential from the cookie, the introspected one (the default when that is
\* the zero time) for one from the header.
ExpiryUsed ==
    IF last.headerRead
    THEN IF last.intro.expireAt = ZeroTime
         THEN last.t2 + SessionExpireTime
         ELSE last.intro.expireAt
    ELSE last.cookieIn.Token.Expiry

\* The request passed extraction, introspection, the audience check and the
\* expiry check.
Validated ==
    /\ CredentialExtracted
    /\ IntrospectionOK
    /\ last.intro.audience = ClientID
    /\ ExpiryUsed >= last.t2

\* C1: Secured invokes the wrapped handler only when isAuthorized returned
\* true, which needs an extracted credential, a successful introspection, the
\* configured audience and an unexpired token; whenever isAuthorized returned
\* false the response is the 303 redirect to the authorization URL whose state
\* is the request URI, and the wrapped handler is not invoked.
C1_SecuredOnlyIfAuthorized ==
    last.op = "Secured" =>
      /\ last.nextCalled => last.result /\ Validated
      /\ last.result => last.nextCalled /\ last.status # 303
      /\ ~last.result =>
           /\ ~last.nextCalled
           /\ last.status = 303
           /\ last.location = [to |-> "AuthURL", state |-> last.uri]

C1_Witness ==
    /\ last.op = "Secured"
    /\ last.nextCalled
    /\ last.headerRead

\* C2: when introspection reports an audience other than the client ID, from
\* a cookie's token or a header's and whatever the expiry, Authorize is false
\* and GetPermissions and GetSessionData fail with ErrorInvalidAudience; no
\* identity with another audience is ever returned.
C2_AudienceMismatchRejects ==
    /\ (last.op \in AuthOps /\ IntrospectionOK /\ last.intro.audience # ClientID) =>
         /\ ~last.result
         /\ ~last.nextCalled
         /\ last.data = Nil
         /\ last.perms = <<>>
         /\ last.op # "Secured" => last.err = ErrorInvalidAudience
    /\ last.data # Nil => last.data.Audience = ClientID

C2_Witness ==
    /\ last.op = "GetSessionData"
    /\ ~last.headerRead
    /\ IntrospectionOK
    /\ last.intro.audience # ClientID
    /\ last.cookieIn.Token.Expiry > last.t2
    /\ last.err = ErrorInvalidAudience

\* A step of the request being answered returned an error.
ErrorOnPath ==
    \/ last.headerRead /\ getBearerToken(last.header).err # ErrNil
    \/ last.introspections = 1 /\ last.intro.err
    \/ IntrospectionOK /\ last.intro.audience # ClientID
    \/ IntrospectionOK /\ last.intro.audience = ClientID /\ ExpiryUsed < last.t2
    \/ last.lookups = 1 /\ last.lookup.err
    \/ last.writeErr # ErrNil

\* C3: Authorize and HasPermission fail closed: when extraction,
\* introspection, the audience check, the expiry check, the permission lookup
\* or the cookie write failed, both return false.
C3_FailClosed ==
    (last.op \in {"Secured", "HasPermission"} /\ ErrorOnPath) =>
        ~last.result /\ ~last.nextCalled

C3_Witness ==
    /\ last.op = "HasPermission"
    /\ last.writeErr # ErrNil
    /\ last.lookups = 1
    /\ ~last.lookup.err
    /\ last.permission \in Elems(last.lookup.permissions)
    /\ ~last.result

\* The permission cache the request consults: the cookie's record for a
\* credential from the cookie, a fresh record for one from the header.
Cached == IF last.headerRead THEN <<>> ELSE last.cookieIn.Permissions
CacheExpireAt == IF last.headerRead THEN ZeroTime ELSE last.cookieIn.PermissionsExpireAt

\* C4: when GetPermissions succeeds, HasPermission(p) is true exactly when p
\* is in the most recently fetched permission set: the list the lookup just
\* returned when this request refreshed the cache, the cached list otherwise,
\* in whatever order and with whatever duplicates the collaborator gave it.
C4_HasPermissionIsMembership ==
    (last.op = "HasPermission" /\ last.err = ErrNil) =>
        (last.result <=>
           last.permission \in
             (IF last.lookups = 1 THEN Elems(last.lookup.permissions) ELSE Elems(Cached)))

C4_Witness ==
    /\ last.op = "HasPermission"
    /\ last.err = ErrNil
    /\ last.lookups = 1
    /\ ~IsSorted(last.lookup.permissions)
    /\ last.permission = "read"
    /\ last.result

\* C5: for a validated session, GetPermissions/HasPermission makes no lookup
\* call and returns the cached list while the cached PermissionsExpireAt has
\* not passed; once it has passed (or the cache was never filled) it makes
\* exactly one lookup call and, when that and the cookie write succeed, the
\* stored list is the collaborator's answer and the stored PermissionsExpireAt
\* is the time after the lookup plus PermissionExpireTime.
C5_PermissionCacheWindow ==
    (last.op \in PermissionOps /\ Validated) =>
        IF CacheExpireAt >= last.t2
        THEN /\ last.lookups = 0
             /\ last.err = ErrNil
             /\ last.perms = Cached
        ELSE /\ last.lookups = 1
             /\ (~last.lookup.err /\ last.writeErr = ErrNil) =>
                  /\ last.err = ErrNil
                  /\ Elems(last.perms) = Elems(last.lookup.permissions)
                  /\ Len(last.perms) = Len(last.lookup.permissions)
                  /\ cookie.Permissions = last.perms
                  /\ cookie.PermissionsExpireAt = now + PermissionExpireTime

\* The scenario: <<read, write>> cached, the window elapsed, the collaborator
\* now answers <<read>>, HasPermission("write") is false after one lookup.
C5_Witness ==
    /\ last.op = "HasPermission"
    /\ last.permission = "write"
    /\ ~last.headerRead
    /\ last.cookieIn.Permissions = <<"read", "write">>
    /\ last.lookups = 1
    /\ ~last.lookup.err
    /\ last.lookup.permissions = <<"read">>
    /\ last.err = ErrNil
    /\ ~last.result
    /\ cookie.Permissions = <<"read">>

\* C6 (as claimed): Authorize on a valid stored record and the Authorize that
\* follows it on the same record invoke the introspection collaborator at
\* most once between them.
C6_NoReintrospection ==
    (last.op = "Secured" /\ ~last.headerRead /\ last.result) =>
        \A ans \in IntrospectAnswers(now) :
            last.introspections
              + getAuthSessionDataFromRequest(cookie, <<>>, ans, now, now).introspections <= 1

\* C7 (as claimed): a request with no cookie and no Authorization header
\* makes GetPermissions and GetSessionData fail with ErrorInvalidSession.
C7_NoCredentialIsInvalidSession ==
    (/\ last.op \in {"GetPermissions", "GetSessionData"}
     /\ last.cookieIn = Nil
     /\ last.headerRead
     /\ last.header = <<>>) =>
        last.err = ErrorInvalidSession

\* C8 (as claimed): GetSessionData fails with ErrorInvalidSession, and
\* returns no identity, when the token of the request's credential has an
\* explicit expiry in the past: the stored record's token (and no header is
\* sent), or the token introspected from a bearer header.
C8_PastExpiryIsInvalidSession ==
    (/\ last.op = "GetSessionData"
     /\ \/ /\ last.cookieIn.kind = "data"
           /\ last.cookieIn.Token.Expiry < last.t1
           /\ last.header = <<>>
        \/ /\ last.headerRead
           /\ IntrospectionOK
           /\ last.intro.audience = ClientID
           /\ last.intro.expireAt # ZeroTime
           /\ last.intro.expireAt < last.t2) =>
        last.err = ErrorInvalidSession /\ last.data = Nil

\* C9: an Authorize that follows ExpireSession with no Authorization header
\* and the cookie as ExpireSession left it returns false, whatever the
\* collaborators answer: ExpireSession removed the stored record.
C9_ExpiredSessionNotAuthorized ==
    last.op = "ExpireSession" =>
      /\ ~last.panicked => cookie = Nil
      /\ \A ans \in IntrospectAnswers(now), saveOK \in BOOLEAN, d \in Delays :
           ~isAuthorized(cookie,
                         getAuthSessionDataFromRequest(cookie, <<>>, ans, now, now + d),
                         saveOK, now + d).result

\* ExpireSession has just ended a login that Authorize accepted.
C9_Witness ==
    /\ last.op = "ExpireSession"
    /\ last.cookieIn.kind = "data"
    /\ \E ans \in IntrospectAnswers(now) :
         isAuthorized(last.cookieIn,
                      getAuthSessionDataFromRequest(last.cookieIn, <<>>, ans, now, now),
                      TRUE, now).result

Whitespace == {SP}

\* The whitespace-separated fields of s (strings.Fields).
RECURSIVE Fields(_)
Fields(s) ==
    IF s = <<>> THEN <<>>
    ELSE IF Head(s) \in Whitespace THEN Fields(Tail(s))
    ELSE LET n == IF \E i \in 1..Len(s) : s[i] \in Whitespace
                  THEN (CHOOSE i \in 1..Len(s) :
                          s[i] \in Whitespace /\ \A j \in 1..(i - 1) : s[j] \notin Whitespace) - 1
                  ELSE Len(s)
         IN  <<SubSeq(s, 1, n)>> \o Fields(SubSeq(s, n + 1, Len(s)))

\* C10 (as claimed): with no usable cookie, the Authorization header is
\* accepted exactly when it has two whitespace-separated fields of which the
\* first is "bearer" in any case, the second then being the access value and
\* fromHeader true; any other number of fields fails with
\* ErrorInvalidAuthorizationHeaderFormat, another first field with
\* ErrorUnsupportedAuthorizationType.
C10_BearerHeaderShape ==
    (last.op \in {"GetPermissions", "HasPermission", "GetSessionData"} /\ last.headerRead) =>
        IF Len(Fields(last.header)) # 2
        THEN last.err = ErrorInvalidAuthorizationHeaderFormat
        ELSE IF ~EqualFold(Fields(last.header)[1], bearer)
        THEN last.err = ErrorUnsupportedAuthorizationType
        ELSE /\ last.accessToken = Fields(last.header)[2]
             /\ last.err \notin {ErrorInvalidAuthorizationHeaderFormat,
                                 ErrorUnsupportedAuthorizationType}
             /\ last.err = ErrNil => last.fromHeader

\* C11: when Authorize returns true for a credential taken from the
\* Authorization header, the cookie was written before it returned and holds
\* a record with that header's bearer token and an empty permission cache;
\* when that write fails Authorize returns false; for a credential taken from
\* the cookie Authorize writes nothing.
C11_HeaderCredentialPersisted ==
    last.op = "Secured" =>
      /\ (last.result /\ last.headerRead) =>
           /\ last.write # Nil
           /\ last.writeErr = ErrNil
           /\ cookie = Encode(last.write)
           /\ cookie.kind = "data"
           /\ cookie.Token.AccessToken = getBearerToken(last.header).token
           /\ cookie.Token.TokenType = "Bearer"
           /\ cookie.Permissions = <<>>
           /\ cookie.PermissionsExpireAt = ZeroTime
      /\ last.writeErr # ErrNil => ~last.result /\ cookie = last.cookieIn
      /\ ~last.headerRead => last.write = Nil /\ cookie = last.cookieIn

\* A bearer header replaces an expired record of another token.
C11_Witness ==
    /\ last.op = "Secured"
    /\ last.result
    /\ last.headerRead
    /\ last.cookieIn.kind = "data"
    /\ last.cookieIn.Token.AccessToken = tokB
    /\ cookie.kind = "data"
    /\ cookie.Token.AccessToken = tokA

\* C12: the record CallbackView persists has the token the exchange
\* returned; a token without expiry gets the expiry "time of the callback
\* plus SessionExpireTime", an explicit expiry is kept as it is, so the
\* persisted expiry is never the zero time.
C12_CallbackDefaultExpiry ==
    (last.op = "CallbackView" /\ last.status = 303) =>
      /\ cookie.kind = "data"
      /\ cookie.Token.AccessToken = last.exchange.token.AccessToken
      /\ cookie.Token.Expiry # ZeroTime
      /\ cookie.Token.Expiry =
           IF last.exchange.token.Expiry = ZeroTime
           THEN last.t1 + SessionExpireTime
           ELSE last.exchange.token.Expiry
      /\ last.exchange.token.Expiry = ZeroTime => cookie.Token.Expiry > now

C12_Witness ==
    /\ last.op = "CallbackView"
    /\ last.status = 303
    /\ last.exchange.token.Expiry = ZeroTime
    /\ cookie.Token.Expiry = now + SessionExpireTime

\* C13: CallbackView has three outcomes: 400 and no write when the exchange
\* fails; 500 when the exchange succeeds and persisting the fresh record
\* fails; otherwise the fresh record (no permissions, PermissionsExpireAt
\* zero) is persisted and the answer is the 303 redirect to state.
C13_CallbackOutcomes ==
    last.op = "CallbackView" =>
      /\ last.status \in {400, 500, 303}
      /\ last.status = 400 <=> last.exchange.err
      /\ last.status = 400 => last.write = Nil /\ cookie = last.cookieIn
      /\ last.status = 500 <=> (~last.exchange.err /\ last.writeErr # ErrNil)
      /\ last.status = 500 => cookie = last.cookieIn
      /\ last.status = 303 =>
           /\ last.writeErr = ErrNil
           /\ last.write # Nil
           /\ last.write.Permissions = <<>>
           /\ last.write.PermissionsExpireAt = ZeroTime
           /\ cookie = Encode(last.write)
           /\ last.location = [to |-> last.uri, state |-> ""]

C13_Witness ==
    /\ last.op = "CallbackView"
    /\ last.status = 500
    /\ ~last.exchange.err
    /\ last.cookieIn.kind = "data"

\* What the request of slot r returns and writes when it is handled alone,
\* from start to end, on the cookie and header it carried, the clock readings
\* it made and the answers its collaborators gave it.
Alone(r) ==
    LET g == getAuthSessionDataFromRequest(r.cookieIn, r.header, r.intro, r.t1, r.t2)
    IN  CASE r.op = "Secured" ->
               LET a == isAuthorized(r.cookieIn, g, r.saveOK, r.t2)
               IN  Out(a.result, ErrNil, <<>>, Nil,
                       IF a.result THEN 200 ELSE startOAuth("").status, a.write, a.writeErr)
          [] r.op = "GetPermissions" ->
               LET p == GetPermissions(r.cookieIn, g, r.lookup, r.saveOK, r.t2, r.t3)
               IN  Out(FALSE, p.err, p.perms, Nil, 0, p.write, p.writeErr)
          [] r.op = "GetSessionData" ->
               LET d == GetSessionData(g, r.t2)
               IN  Out(FALSE, d.err, <<>>, d.data, 0, Nil, ErrNil)
          [] r.op = "CallbackView" ->
               IF r.exchange.err
               THEN Out(FALSE, ErrorExchange, <<>>, Nil, 400, Nil, ErrNil)
               ELSE LET cd == newAuthSessionCookieData(r.exchange.token, r.t2)
                        w == issueAuthCookie(r.cookieIn, cd, r.saveOK)
                    IN  Out(w.err = ErrNil, w.err, <<>>, Nil,
                            IF w.err # ErrNil THEN 500 ELSE 303, cd, w.err)
          [] r.op = "ExpireSession" ->
               Out(~expireAuthCookie(r.cookieIn).panic, ErrNil, <<>>, Nil,
                   IF expireAuthCookie(r.cookieIn).panic THEN 0 ELSE 303, Nil, ErrNil)

\* C14: however the steps of concurrently handled requests interleave, what
\* each request returns and the record it writes are what the same request
\* returns and writes when handled alone on the cookie, header, clock
\* readings and collaborator answers it observed: a handler works on its
\* request's own data only.
C14_RequestsIndependent ==
    \A i \in Reqs : inflight[i].pc = "done" => inflight[i].out = Alone(inflight[i])

\* Two GetPermissions sent with the same cookie both refreshed the cache,
\* with different answers, and both wrote the cookie.
C14_Witness ==
    /\ \A i \in Reqs :
         /\ inflight[i].pc = "done"
         /\ inflight[i].op = "GetPermissions"
         /\ inflight[i].out.write # Nil
         /\ inflight[i].out.writeErr = ErrNil
    /\ inflight[1].cookieIn = inflight[2].cookieIn
    /\ inflight[1].cookieIn.kind = "data"
    /\ inflight[1].out.perms # inflight[2].out.perms
    /\ cookie.Permissions = inflight[1].out.perms

\* C15: a GetPermissions that succeeds writes the cookie exactly when the
\* token came from the header or the permission cache was refreshed by this
\* request; for a cookie's token whose cache has not expired the cookie is
\* left as it was; after a refresh the cookie holds the sorted answer of the
\* lookup and the new PermissionsExpireAt.
C15_RepersistIff ==
    (last.op \in PermissionOps /\ last.err = ErrNil) =>
      /\ last.write # Nil <=> (last.fromHeader \/ last.updated)
      /\ last.write # Nil => cookie = Encode(last.write)
      /\ (~last.fromHeader /\ CacheExpireAt >= last.t2) =>
           /\ last.write = Nil
           /\ cookie = last.cookieIn
      /\ last.updated =>
           /\ cookie.Permissions = SortStrings(last.lookup.permissions)
           /\ IsSorted(cookie.Permissions)
           /\ cookie.PermissionsExpireAt = now + PermissionExpireTime

\* A cookie's token, its cache expired, refreshed and written back.
C15_Witness ==
    /\ last.op = "GetPermissions"
    /\ last.err = ErrNil
    /\ ~last.fromHeader
    /\ ~last.headerRead
    /\ last.updated
    /\ last.cookieIn.Permissions # cookie.Permissions
    /\ cookie.Token = last.cookieIn.Token

\* C16: in every reachable state the permissions of the stored record, of
\* every record written and of every list GetPermissions returned are sorted
\* ascending; a fresh record has none.
C16_PermissionsSorted ==
    /\ cookie.kind = "data" => IsSorted(cookie.Permissions)
    /\ last.write # Nil => IsSorted(last.write.Permissions)
    /\ IsSorted(last.perms)
    /\ (last.op \in {"Secured", "CallbackView"} /\ last.write # Nil) =>
         last.write.Permissions = <<>>

C16_Witness ==
    /\ last.op = "GetPermissions"
    /\ last.lookups = 1
    /\ ~last.lookup.err
    /\ last.lookup.permissions = <<"write", "read">>
    /\ last.perms = <<"read", "write">>
    /\ cookie.kind = "data"
    /\ cookie.Permissions = <<"read", "write">>

\* C17: when the request's cookie holds a record whose token has not
\* expired, the token introspected is that record's, fromHeader is false and
\* the Authorization header is not read, whatever it holds; the header is
\* read only when the record is absent or its token has expired.
C17_CookieBeforeHeader ==
    /\ (last.op \in AuthOps /\ last.cookieIn.kind = "data"
          /\ last.cookieIn.Token.Expiry >= last.t1) =>
         /\ ~last.headerRead
         /\ ~last.fromHeader
         /\ last.header = NotRead
         /\ last.accessToken = last.cookieIn.Token.AccessToken
         /\ last.introspections = 1
    /\ (last.op \in AuthOps /\ last.headerRead) =>
         (last.cookieIn.kind # "data" \/ last.cookieIn.Token.Expiry < last.t1)
    /\ (cookie.kind = "data" /\ cookie.Token.Expiry >= now) =>
         \A hdr \in HeaderShapes :
            /\ credentialOf(cookie, hdr, now) = credentialOf(cookie, <<>>, now)
            /\ credentialOf(cookie, hdr, now).accessToken = cookie.Token.AccessToken
            /\ ~credentialOf(cookie, hdr, now).fromHeader

\* A request was accepted on the token of its cookie, one no header offered
\* carries.
C17_Witness ==
    /\ last.op = "Secured"
    /\ last.result
    /\ ~last.headerRead
    /\ last.accessToken = tokB
    /\ last.intro.expireAt # last.cookieIn.Token.Expiry

\* C18: GetPermissionsFunc is called only by GetPermissions/HasPermission,
\* at most once a request, and only after extraction and introspection
\* succeeded, the audience was the client ID and the token had not expired.
C18_LookupOnlyWhenValidated ==
    /\ last.lookups \in {0, 1}
    /\ last.lookups = 1 => (last.op \in PermissionOps /\ Validated)

C18_Witness ==
    /\ last.op = "HasPermission"
    /\ last.lookups = 1
    /\ ~last.headerRead
    /\ Validated

\* The request was not turned down for an expired token.
TokenAccepted ==
    IF last.op = "Secured" THEN last.result ELSE last.err # ErrorInvalidSession

\* C19: for a credential from the cookie the expiry every decision uses is
\* the stored one, and the expiry and extra claims introspection returned are
\* dropped; for a credential from the header the identity's token has the
\* introspected expiry (the default when that is the zero time) and extra
\* claims.
C19_StoredExpiryDecides ==
    (last.op \in AuthOps /\ IntrospectionOK /\ last.intro.audience = ClientID) =>
        IF ~last.headerRead
        THEN /\ TokenAccepted <=> last.cookieIn.Token.Expiry >= last.t2
             /\ last.data # Nil =>
                  /\ last.data.AuthSessionCookieData = last.cookieIn
                  /\ last.data.AuthSessionCookieData.Token.Extra = NoExtra
        ELSE /\ last.op # "Secured" =>
                  (TokenAccepted <=>
                     (IF last.intro.expireAt = ZeroTime THEN last.t2 + SessionExpireTime
                      ELSE last.intro.expireAt) >= last.t2)
             /\ last.data # Nil =>
                  /\ last.data.AuthSessionCookieData.Token.Expiry =
                       (IF last.intro.expireAt = ZeroTime THEN last.t2 + SessionExpireTime
                        ELSE last.intro.expireAt)
                  /\ last.data.AuthSessionCookieData.Token.Extra = last.intro.extra

\* Introspection reports an expiry already past; the stored one has not come.
C19_Witness ==
    /\ last.op = "GetSessionData"
    /\ ~last.headerRead
    /\ IntrospectionOK
    /\ last.intro.audience = ClientID
    /\ last.intro.expireAt # ZeroTime
    /\ last.intro.expireAt < last.t2
    /\ last.err = ErrNil
    /\ last.data.AuthSessionCookieData.Token.Expiry > last.t2

\* A step before any write of the request being answered failed.
FailedBeforeWrite ==
    \/ last.headerRead /\ getBearerToken(last.header).err # ErrNil
    \/ last.introspections = 1 /\ last.intro.err
    \/ IntrospectionOK /\ last.intro.audience # ClientID
    \/ IntrospectionOK /\ last.intro.audience = ClientID /\ ExpiryUsed < last.t2
    \/ last.lookups = 1 /\ last.lookup.err

\* C20: Authorize, GetPermissions and GetSessionData write nothing when
\* extraction, introspection, the audience check, the expiry check or the
\* permission lookup fails: the cookie is what it was, an expired record
\* included; GetSessionData never writes and never looks permissions up.
C20_ErrorsLeaveStore ==
    /\ (last.op \in AuthOps /\ FailedBeforeWrite) =>
         /\ last.write = Nil
         /\ cookie = last.cookieIn
    /\ last.op = "GetSessionData" =>
         /\ last.write = Nil
         /\ last.lookups = 0
         /\ cookie = last.cookieIn

\* An expired record and no header: turned down, and the record stays.
C20_Witness ==
    /\ last.op = "Secured"
    /\ last.cookieIn.kind = "data"
    /\ last.cookieIn.Token.Expiry < last.t1
    /\ last.headerRead
    /\ last.header = <<>>
    /\ ~last.result
    /\ cookie = last.cookieIn

====
